---- MODULE Spec2Model ----
(***************************************************************************)
(* A model of the cmaes crate's option builder (src/src/options.rs) and of *)
(* its termination check (src/src/termination.rs).                        *)
(*                                                                         *)
(* Numbers.  Every f64 of the program is modelled by an integer.  Step     *)
(* sizes and the learning rate cm (initial_step_size, sigma,               *)
(* initial_sigma, tol_x, cm) are fixed-point numbers with unit 1/One, so   *)
(* that 0.5 and 1.0 are both values of the model; every other quantity     *)
(* (function values, covariance entries, path entries, tolerances that are *)
(* ratios) is a whole number.  The inputs are small, so every sum,         *)
(* difference and product the check computes is exact in f64 as well, and  *)
(* a quotient is compared by cross-multiplication with its positive        *)
(* divisor.  The magnitudes of the tests' fixture (1e-12, 1e8, 1e14) are   *)
(* replaced by small numbers in the same order relations.                  *)
(***************************************************************************)
EXTENDS Integers, Sequences, FiniteSets, TLC

VARIABLES
    \* ---- CMAESOptions and the outcome of build (options.rs)
    options,                        \* the CMAESOptions being assembled
    touched,                        \* the builder methods applied to it so far
    build_result,                   \* "NotBuilt", "Ok", or the InvalidOptionsError
    cmaes_state,                    \* None, or Some(the CMAESState build created)
    \* ---- the fields of TerminationCheck (termination.rs:73-88)
    current_function_evals,
    time_created,
    parameters,
    state,
    best_function_value_history,
    median_function_value_history,
    max_history_size,
    first_median_value,
    best_median_value,
    individuals,
    \* ---- the environment and the caller of check_termination_criteria
    now,                            \* the clock Instant::elapsed reads
    result,                         \* the Vec the latest call returned
    same_inputs,                    \* a call was made and no field changed since
    fresh,                          \* ... and the clock did not move either
    \* ---- the generation driver and the covariance's cache (spec 2, 4.2, 4.3, 5)
    pc,                             \* "idle", "sampled", "updated" or "stopped"
    evaluated,                      \* the objective's values for the latest candidates
    cache,                          \* "Clean" or "Dirty"
    observed,                       \* what the latest access of the decomposition read
    reasons,                        \* the reasons the latest generation returned
    checks,                         \* the termination checks made so far
    stop_requested                  \* the caller asked the run to stop

optionVars == <<options, touched, build_result, cmaes_state>>

checkInputs ==
    <<current_function_evals, time_created, parameters, state,
      best_function_value_history, median_function_value_history,
      max_history_size, first_median_value, best_median_value, individuals>>

callVars == <<now, result, same_inputs, fresh>>

runVars == <<pc, evaluated, cache, observed, reasons, checks, stop_requested>>

vars == <<optionVars, checkInputs, callVars, runVars>>

----------------------------------------------------------------------------
(* Option<T> and small helpers *)

None == <<>>

Some(x) == <<x>>

IsSome(o) == o # None

Unwrap(o) == o[1]

Abs(x) == IF x < 0 THEN -x ELSE x

Range(s) == {s[i] : i \in DOMAIN s}

Max(S) == CHOOSE x \in S : \A y \in S : y <= x

Min(S) == CHOOSE x \in S : \A y \in S : x <= y

Take(s, n) == SubSeq(s, 1, IF n < Len(s) THEN n ELSE Len(s))

Skip(s, n) == SubSeq(s, n + 1, Len(s))

\* The fixed-point representation of the f64 literal 1.0 (cm's default);
\* 0.5 is One \div 2.
One == 8

Half == One \div 2

----------------------------------------------------------------------------
(* CMAESOptions (options.rs) *)

\* Largest dimension the builder is started with.
MaxDimensions == 5

\* ceil(e^k) for k = 0..8: e^k <= n for a whole n iff CeilExp[k] <= n.
CeilExp == <<1, 3, 8, 21, 55, 149, 404, 1097, 2981>>

\* (3.0 * (dimensions as f64).ln()).floor() as usize: the largest k with
\* e^k <= dimensions^3; ln(0) is -inf, and the cast of -inf saturates to 0.
Floor3Ln(dimensions) ==
    IF dimensions = 0 THEN 0
    ELSE Max({k \in 0..8 : CeilExp[k + 1] <= dimensions * dimensions * dimensions})

Zeros(n) == [i \in 1..n |-> 0]

NewWrongPopulation(dimensions) ==
    [dimensions |-> dimensions,
     initial_mean |-> Zeros(dimensions),
     initial_step_size |-> Half,
     population_size |-> Floor3Ln(dimensions),
     cm |-> One]

\* CMAESOptions::new
New(dimensions) ==
    [dimensions |-> dimensions,
     initial_mean |-> Zeros(dimensions),
     initial_step_size |-> Half,
     population_size |-> 4 + Floor3Ln(dimensions),
     cm |-> One]

\* The conditions CMAESState::new rejects, each with its InvalidOptionsError.
InvalidReasons(o) ==
    (IF o.dimensions = 0 THEN {"Dimensions"} ELSE {})
    \cup (IF Len(o.initial_mean) # o.dimensions THEN {"MeanDimensionMismatch"} ELSE {})
    \cup (IF o.population_size < 4 THEN {"PopulationSize"} ELSE {})
    \cup (IF o.initial_step_size <= 0 THEN {"InitialStepSize"} ELSE {})
    \cup (IF o.cm <= 0 \/ o.cm > One THEN {"Cm"} ELSE {})

\* CMAESState::new: Err with the reason of a rejected condition (which one,
\* when several are rejected, is not fixed here), else Ok with a State built
\* from the options.
CMAESStateNew(o, r, s) ==
    IF InvalidReasons(o) = {}
    THEN r = "Ok"
         /\ s = Some([mean |-> o.initial_mean, sigma |-> o.initial_step_size,
                      generation |-> 0])
    ELSE r \in InvalidReasons(o) /\ s = None

NotBuilt == build_result = "NotBuilt"

\* CMAESOptions::initial_mean
initial_mean(v) ==
    /\ NotBuilt
    /\ options' = [options EXCEPT !.initial_mean = v]
    /\ touched' = touched \cup {"initial_mean"}
    /\ UNCHANGED <<build_result, cmaes_state, checkInputs, callVars, runVars>>

\* CMAESOptions::initial_step_size
initial_step_size(x) ==
    /\ NotBuilt
    /\ options' = [options EXCEPT !.initial_step_size = x]
    /\ touched' = touched \cup {"initial_step_size"}
    /\ UNCHANGED <<build_result, cmaes_state, checkInputs, callVars, runVars>>

\* CMAESOptions::population_size
population_size(n) ==
    /\ NotBuilt
    /\ options' = [options EXCEPT !.population_size = n]
    /\ touched' = touched \cup {"population_size"}
    /\ UNCHANGED <<build_result, cmaes_state, checkInputs, callVars, runVars>>

\* CMAESOptions::cm
cm(x) ==
    /\ NotBuilt
    /\ options' = [options EXCEPT !.cm = x]
    /\ touched' = touched \cup {"cm"}
    /\ UNCHANGED <<build_result, cmaes_state, checkInputs, callVars, runVars>>

\* CMAESOptions::build: consumes the options and returns CMAESState::new's
\* result.
build ==
    /\ NotBuilt
    /\ CMAESStateNew(options, build_result', cmaes_state')
    /\ UNCHANGED <<options, touched, checkInputs, callVars, runVars>>

----------------------------------------------------------------------------
(* Parameters, State and the tests' fixture (termination.rs:277-333) *)

DEFAULT_INITIAL_SIGMA == Half

DIM == 2

MAX_HISTORY_LENGTH == 100

\* Number of individuals of a dummy generation.
NumIndividuals == 3

Dims == 1..DIM

\* A DIM x DIM matrix with the given diagonal and zeros elsewhere.
Diagonal(d) == [i \in Dims, j \in Dims |-> IF i = j THEN d[i] ELSE 0]

Identity == Diagonal([i \in Dims |-> 1])

\* The root of a perfect square (f64::sqrt is exact on these).
Sqrt(n) == CHOOSE r \in 0..n : r * r = n

IsSquare(n) == \E r \in 0..n : r * r = n

\* The decomposition the covariance's cache holds after set_cov(cov, true),
\* for the diagonal matrices of this model: the principal axes are the
\* coordinate axes, in their order.
Eigen(cov) ==
    [eigenvectors |-> Identity,
     sqrt_eigenvalues |-> Diagonal([i \in Dims |-> Sqrt(cov[i, i])])]

\* A mean coordinate is a float m * 2^e kept as <<m, e>>.
Float(m, e) == <<m, e>>

\* State::new(mean, sigma): identity covariance, zero paths, generation 0.
StateNew(mean, sigma) ==
    [mean |-> mean,
     cov |-> Identity,
     cov_eigenvectors |-> Eigen(Identity).eigenvectors,
     cov_sqrt_eigenvalues |-> Eigen(Identity).sqrt_eigenvalues,
     sigma |-> sigma,
     path_c |-> [i \in Dims |-> 0],
     generation |-> 0]

UnwrapOr(o, d) == IF IsSome(o) THEN Unwrap(o) ELSE d

\* tests::get_parameters.  The fixture's 1e-12 thresholds are 2 function
\* units, its tol_x factor 1e-12 is 1/2, its 1e8 is 3 and its 1e14 is 4.
get_parameters(initial_sigma, max_function_evals, max_generations, max_time, tol_fun_hist) ==
    LET sigma0 == UnwrapOr(initial_sigma, DEFAULT_INITIAL_SIGMA) IN
    [dim |-> DIM,
     lambda |-> 6,
     initial_sigma |-> sigma0,
     max_function_evals |-> max_function_evals,
     max_generations |-> max_generations,
     max_time |-> max_time,
     fun_target |-> 2,
     tol_fun |-> 2,
     tol_fun_rel |-> 1,
     tol_fun_hist |-> UnwrapOr(tol_fun_hist, 2),
     tol_x |-> sigma0 \div 2,
     tol_x_up |-> 3,
     tol_condition_cov |-> 4]

\* tests::get_state
get_state(initial_sigma) ==
    StateNew([i \in Dims |-> Float(0, 0)],
             UnwrapOr(initial_sigma, DEFAULT_INITIAL_SIGMA))

\* tests::get_dummy_generation: individuals of one and the same value.
get_dummy_generation(function_value) ==
    [i \in 1..NumIndividuals |-> function_value]

----------------------------------------------------------------------------
(* The collaborators of the check: utils, statrs, State's accessors, f64 *)

\* utils::range: max - min of the values, None when there are none.
range(values) ==
    IF Len(values) = 0 THEN None
    ELSE Some(Max(Range(values)) - Min(Range(values)))

\* ceil(a / b) for a >= 0, b > 0, as (a as f64 / b as f64).ceil() gives it.
CeilDiv(a, b) == (a + b - 1) \div b

\* The k-th smallest (k = 1..Len) of a sequence.
Sorted(values, k) ==
    CHOOSE v \in Range(values) :
        /\ Cardinality({i \in DOMAIN values : values[i] < v}) < k
        /\ Cardinality({i \in DOMAIN values : values[i] <= v}) >= k

\* Twice statrs' Data::median: the middle value, or the mean of the two
\* middle values; None stands for the NaN of an empty data set.
Median2(values) ==
    LET n == Len(values) IN
    IF n = 0 THEN None
    ELSE IF n % 2 = 1 THEN Some(2 * Sorted(values, (n + 1) \div 2))
    ELSE Some(Sorted(values, n \div 2) + Sorted(values, n \div 2 + 1))

\* a < b on f64 medians: false as soon as one of them is NaN.
MedianLess(a, b) == IsSome(a) /\ IsSome(b) /\ Unwrap(a) < Unwrap(b)

\* State::axis_ratio as <<largest, smallest>> sqrt-eigenvalue; the ratio is
\* their quotient.
axis_ratio ==
    LET diag == {state.cov_sqrt_eigenvalues[i, i] : i \in Dims} IN
    <<Max(diag), Min(diag)>>

Pow2(k) == IF k <= 0 THEN 1 ELSE 2 ^ k

\* floor(log2(m)) for m >= 1.
Log2(m) == Max({k \in 0..30 : Pow2(k) <= m})

\* x == x + d in f64, for the mean coordinate x = m * 2^e >= 0 and the
\* addend d = tenths / (10 * One) >= 0: the sum rounds back to x iff d is 0
\* or at most half an ulp of x (a tie rounds to the even neighbour, and every
\* x of the model has an even significand); ulp(x) = 2^(Log2(m) + e - 52).
AddLeavesEqual(x, tenths) ==
    \/ tenths = 0
    \/ /\ x[1] > 0
       /\ LET k == Log2(x[1]) + x[2] - 52 IN
          IF k >= 0 THEN 2 * tenths <= 10 * One * Pow2(k)
          ELSE k >= -6 /\ 2 * tenths * Pow2(-k) <= 10 * One

----------------------------------------------------------------------------
(* TerminationCheck::check_termination_criteria (termination.rs:92-263) *)

TerminationReason ==
    {"MaxFunctionEvals", "MaxGenerations", "MaxTime", "FunTarget", "TolFun",
     "TolFunRel", "TolFunHist", "TolX", "Stagnation", "TolXUp", "NoEffectAxis",
     "NoEffectCoord", "TolConditionCov", "InvalidFunctionValue", "PosDefCov"}

\* self.time_created.elapsed()
elapsed == now - time_created

\* A limit that is reported only once it is exceeded.
MaxFunctionEvalsExceeded ==
    /\ IsSome(parameters.max_function_evals)
    /\ current_function_evals > Unwrap(parameters.max_function_evals)

\* Lines 113-118.
MaxFunctionEvalsMet ==
    /\ IsSome(parameters.max_function_evals)
    /\ current_function_evals >= Unwrap(parameters.max_function_evals)

\* A limit that is reported at the generation that equals it only.
MaxGenerationsExactly ==
    /\ IsSome(parameters.max_generations)
    /\ state.generation = Unwrap(parameters.max_generations)

\* Lines 120-125.
MaxGenerationsMet ==
    /\ IsSome(parameters.max_generations)
    /\ state.generation >= Unwrap(parameters.max_generations)

\* Lines 127-132.
MaxTimeMet ==
    /\ IsSome(parameters.max_time)
    /\ elapsed >= Unwrap(parameters.max_time)

\* A target that must be undercut.
FunTargetUndercut ==
    \E i \in DOMAIN individuals : individuals[i] < parameters.fun_target

\* Lines 134-137.
FunTargetMet ==
    \E i \in DOMAIN individuals : individuals[i] <= parameters.fun_target

\* A window whose quotient is rounded down.
past_generations_floor == 10 + (30 * parameters.dim) \div parameters.lambda

\* Line 140.
past_generations_a == 10 + CeilDiv(30 * parameters.dim, parameters.lambda)

\* Lines 141-151: Some(range of the window) once the history fills it.
range_past_generations_a ==
    IF Len(best_function_value_history) >= past_generations_a
    THEN range(Take(best_function_value_history, past_generations_a))
    ELSE None

\* Line 153.
range_current == Unwrap(range(individuals))

\* Lines 143-157.
TolFunMet ==
    /\ IsSome(range_past_generations_a)
    /\ Unwrap(range_past_generations_a) < parameters.tol_fun
    /\ range_current < parameters.tol_fun

\* An improvement taken with its sign.
tol_fun_rel_range_signed ==
    parameters.tol_fun_rel
        * (Unwrap(first_median_value) - Unwrap(best_median_value))

\* Lines 162-163.
tol_fun_rel_range ==
    parameters.tol_fun_rel
        * Abs(Unwrap(first_median_value) - Unwrap(best_median_value))

\* Lines 143, 159-168.
TolFunRelMet ==
    /\ IsSome(range_past_generations_a)
    /\ IsSome(first_median_value) /\ IsSome(best_median_value)
    /\ Unwrap(range_past_generations_a) < tol_fun_rel_range
    /\ range_current < tol_fun_rel_range

\* Lines 171-176.
TolXMet ==
    /\ \A i \in 1..parameters.dim :
           Abs(state.sigma * state.cov[i, i]) < parameters.tol_x
    /\ \A i \in DOMAIN state.path_c :
           Abs(state.sigma * state.path_c[i]) < parameters.tol_x

\* cond.is_normal(), cond the square of axis_ratio: with a zero smallest
\* sqrt-eigenvalue the quotient is infinite or NaN; otherwise it is >= 1.
CondIsNormal == axis_ratio[2] > 0

\* An axis ratio compared without being squared.
TolConditionCovUnsquared ==
    \/ ~CondIsNormal
    \/ axis_ratio[1] > parameters.tol_condition_cov * axis_ratio[2]

\* Lines 178-183.
TolConditionCovMet ==
    \/ ~CondIsNormal
    \/ axis_ratio[1] * axis_ratio[1]
           > parameters.tol_condition_cov * axis_ratio[2] * axis_ratio[2]

\* A cycle that starts one axis late.
index_to_check_late == ((state.generation + 1) % parameters.dim) + 1

\* Line 187, as an index of 1..dim.
index_to_check == (state.generation % parameters.dim) + 1

\* Lines 189-192, in tenths: the vector 0.1 * no_effect_axis_check[j] / 0.1.
no_effect_axis_check ==
    [j \in Dims |->
        state.sigma
            * state.cov_sqrt_eigenvalues[index_to_check, index_to_check]
            * state.cov_eigenvectors[j, index_to_check]]

\* An equality up to a tolerance of 0.1 in place of the exact one.
NoEffectAxisWithinTolerance ==
    \A j \in Dims : Abs(no_effect_axis_check[j]) <= One

\* Lines 194-196.
NoEffectAxisMet ==
    \A j \in Dims : AddLeavesEqual(state.mean[j], no_effect_axis_check[j])

\* A test of the one coordinate the generation counter selects.
NoEffectCoordCycling ==
    AddLeavesEqual(state.mean[index_to_check],
                   2 * state.sigma * state.cov[index_to_check, index_to_check])

\* Lines 198-201.
NoEffectCoordMet ==
    \E i \in 1..parameters.dim :
        AddLeavesEqual(state.mean[i], 2 * state.sigma * state.cov[i, i])

\* A historical range that may equal the tolerance.
TolFunHistAtMost ==
    /\ IsSome(range_past_generations_a)
    /\ Unwrap(range_past_generations_a) <= parameters.tol_fun_hist

\* A historical range taken over the whole history, not over the window.
TolFunHistOfWholeHistory ==
    /\ IsSome(range_past_generations_a)
    /\ Unwrap(range(best_function_value_history)) < parameters.tol_fun_hist

\* Lines 203-208.
TolFunHistMet ==
    /\ IsSome(range_past_generations_a)
    /\ Unwrap(range_past_generations_a) < parameters.tol_fun_hist

\* Line 211.
past_generations_b == max_history_size

\* Line 220: (past_generations_b as f64 * 0.3) as usize.
subrange_length == (3 * past_generations_b) \div 10

\* Lines 219-241.
did_values_improve(values) ==
    LET first_values == Take(Take(values, past_generations_b), subrange_length)
        last_values ==
            Skip(Take(values, past_generations_b),
                 past_generations_b - subrange_length)
    IN  MedianLess(Median2(first_values), Median2(last_values))

\* A stagnation of one history alone.
StagnationOfEither ==
    /\ Len(best_function_value_history) >= past_generations_b
    /\ Len(median_function_value_history) >= past_generations_b
    /\ \/ ~did_values_improve(best_function_value_history)
       \/ ~did_values_improve(median_function_value_history)

\* Lines 210-248.
StagnationMet ==
    /\ Len(best_function_value_history) >= past_generations_b
    /\ Len(median_function_value_history) >= past_generations_b
    /\ ~did_values_improve(best_function_value_history)
    /\ ~did_values_improve(median_function_value_history)

\* Lines 251-256.
max_standard_deviation ==
    state.sigma * Max({state.cov_sqrt_eigenvalues[i, i] : i \in Dims})

\* A divergence test on the absolute standard deviation.
TolXUpAbsolute == max_standard_deviation > parameters.tol_x_up * One

\* Lines 258-260: max_standard_deviation / initial_sigma > tol_x_up, the
\* divisor being positive.
TolXUpMet ==
    max_standard_deviation > parameters.tol_x_up * parameters.initial_sigma

\* if cond { result.push(reason) }
Push(cond, reason) == IF cond THEN <<reason>> ELSE <<>>

\* A check that returns at the first limit it finds reached.
check_returning_early ==
    IF MaxFunctionEvalsMet THEN <<"MaxFunctionEvals">>
    ELSE
        Push(MaxGenerationsMet, "MaxGenerations")
        \o Push(MaxTimeMet, "MaxTime")
        \o Push(FunTargetMet, "FunTarget")
        \o Push(TolFunMet, "TolFun")
        \o Push(TolFunRelMet, "TolFunRel")
        \o Push(TolXMet, "TolX")
        \o Push(TolConditionCovMet, "TolConditionCov")
        \o Push(NoEffectAxisMet, "NoEffectAxis")
        \o Push(NoEffectCoordMet, "NoEffectCoord")
        \o Push(TolFunHistMet, "TolFunHist")
        \o Push(StagnationMet, "Stagnation")
        \o Push(TolXUpMet, "TolXUp")

\* The Vec the call returns, in the order of the pushes.
check_termination_criteria ==
    Push(MaxFunctionEvalsMet, "MaxFunctionEvals")
    \o Push(MaxGenerationsMet, "MaxGenerations")
    \o Push(MaxTimeMet, "MaxTime")
    \o Push(FunTargetMet, "FunTarget")
    \o Push(TolFunMet, "TolFun")
    \o Push(TolFunRelMet, "TolFunRel")
    \o Push(TolXMet, "TolX")
    \o Push(TolConditionCovMet, "TolConditionCov")
    \o Push(NoEffectAxisMet, "NoEffectAxis")
    \o Push(NoEffectCoordMet, "NoEffectCoord")
    \o Push(TolFunHistMet, "TolFunHist")
    \o Push(StagnationMet, "Stagnation")
    \o Push(TolXUpMet, "TolXUp")

----------------------------------------------------------------------------
(* The caller: a TerminationCheck is assembled from the fixture, some of   *)
(* its fields are changed as the tests change them, and it is checked.     *)

\* How many fields of the fixture a caller changes before a check.
MaxChanges == 3

\* Latest reading of the clock.
MaxNow == 2

\* The window of the fixture (lambda = 6).
FixtureWindow == 10 + CeilDiv(30 * DIM, 6)

\* A history whose k most recent values are `recent` and the others `old`.
Pattern(len, k, recent, old) == [i \in 1..len |-> IF i <= k THEN recent ELSE old]

\* A history of `old` values with a single `v` at position pos.
Spike(len, pos, v, old) == [i \in 1..len |-> IF i = pos THEN v ELSE old]

\* Best-value histories around the window: too short, exact, one longer;
\* flat, or with one other value at the newest place, at the window's last
\* place or just behind the window.
BestHistories ==
    {Pattern(len, 0, 10, 10) :
        len \in {FixtureWindow - 2, FixtureWindow - 1, FixtureWindow}}
    \cup {Spike(FixtureWindow, pos, v, 10) :
            pos \in {1, FixtureWindow - 1}, v \in {11, 12, 15}}
    \cup {Spike(FixtureWindow + 1, FixtureWindow + 1, v, 10) : v \in {12, 15}}
    \cup {Spike(FixtureWindow - 2, 1, 15, 10)}
    \cup {Pattern(FixtureWindow, FixtureWindow \div 2, v, 10) : v \in {5, 9}}

MedianHistories ==
    {Pattern(FixtureWindow, FixtureWindow \div 2, v, 10) : v \in {5, 10, 15}}
    \cup {Pattern(FixtureWindow \div 2 - 1, 0, 10, 10)}

Generations ==
    {get_dummy_generation(v) : v \in {1, 2, 3}}
    \cup {[get_dummy_generation(10) EXCEPT ![1] = v] : v \in {2, 11, 12, 15}}
    \cup {[get_dummy_generation(10) EXCEPT ![NumIndividuals] = 12]}

ParameterValues ==
    [lambda |-> {7},
     initial_sigma |-> {One},
     max_function_evals |-> {Some(2)},
     max_generations |-> {Some(2)},
     max_time |-> {Some(1)},
     fun_target |-> {10},
     tol_fun |-> {6},
     tol_fun_rel |-> {0, 2},
     tol_fun_hist |-> {0, 6},
     tol_x |-> {3},
     tol_x_up |-> {6},
     tol_condition_cov |-> {9}]

Sigmas == {1, 2, 3 * Half, 3 * One}

CovDiagonals ==
    {d \in [Dims -> {0, 1, 4, 9}] :
        \/ \E i \in Dims : d[i] \in {0, 4, 9} /\ \A j \in Dims \ {i} : d[j] = 1
        \/ \A i \in Dims : d[i] = 4
        \/ \A i \in Dims : d[i] = 0}

Paths == {p \in [Dims -> {0, 1, -2}] : \E i \in Dims : \A j \in Dims \ {i} : p[j] = 0}

Means ==
    {m \in [Dims -> {Float(0, 0), Float(25, 2), Float(1, 52)}] :
        \/ \A i \in Dims : m[i] = m[1]
        \/ \E i \in Dims : m[i] = Float(0, 0) /\ \A j \in Dims \ {i} : m[j] = Float(1, 52)}

MedianValues == {None, Some(10), Some(20)}

FixtureParameters == get_parameters(None, None, None, None, None)

FixtureState == get_state(None)

\* The fields of a TerminationCheck literal in the order they are written
\* (the struct's order, Parameters' and State's fields in place of the two
\* references).
FieldOrder ==
    <<"current_function_evals", "lambda", "initial_sigma",
      "max_function_evals", "max_generations", "max_time", "fun_target",
      "tol_fun", "tol_fun_rel", "tol_fun_hist", "tol_x", "tol_x_up",
      "tol_condition_cov", "mean", "cov", "sigma", "path_c", "generation",
      "best_function_value_history", "median_function_value_history",
      "max_history_size", "first_median_value", "best_median_value",
      "individuals">>

Rank(f) == CHOOSE i \in DOMAIN FieldOrder : FieldOrder[i] = f

\* The fields that differ from the fresh fixture.
ChangedFields ==
    {f \in DOMAIN ParameterValues : parameters[f] # FixtureParameters[f]}
    \cup {f \in {"mean", "cov", "sigma", "path_c", "generation"} :
             state[f] # FixtureState[f]}
    \cup (IF current_function_evals # 0 THEN {"current_function_evals"} ELSE {})
    \cup (IF best_function_value_history # <<>>
          THEN {"best_function_value_history"} ELSE {})
    \cup (IF median_function_value_history # <<>>
          THEN {"median_function_value_history"} ELSE {})
    \cup (IF max_history_size # MAX_HISTORY_LENGTH THEN {"max_history_size"} ELSE {})
    \cup (IF first_median_value # Some(0) THEN {"first_median_value"} ELSE {})
    \cup (IF best_median_value # Some(0) THEN {"best_median_value"} ELSE {})
    \cup (IF individuals # get_dummy_generation(10) THEN {"individuals"} ELSE {})

\* The number of changes made to the fixture, the clock's included.
Changes == Cardinality(ChangedFields) + (IF now # time_created THEN 1 ELSE 0)

\* A field may be written: no call was made yet and a change is left.
CanWrite == ~same_inputs /\ Changes < MaxChanges

\* Field f may be written: the fields after it still hold the fixture's values.
Writable(f) == CanWrite /\ \A g \in ChangedFields : Rank(g) < Rank(f)

\* A field was written: no result is at hand for the fields.
Stale ==
    /\ result' = <<>>
    /\ same_inputs' = FALSE
    /\ fresh' = FALSE
    /\ UNCHANGED <<optionVars, runVars, now>>

\* A field of Parameters' TerminationParameters, or lambda or initial_sigma.
SetParameter(f, v) ==
    /\ Writable(f)
    /\ v # FixtureParameters[f]
    /\ parameters' = [parameters EXCEPT ![f] = v]
    /\ UNCHANGED <<current_function_evals, time_created, state,
                   best_function_value_history, median_function_value_history,
                   max_history_size, first_median_value, best_median_value,
                   individuals>>
    /\ Stale

\* *state.mut_sigma() = v
mut_sigma(v) ==
    /\ Writable("sigma")
    /\ v # FixtureState.sigma
    /\ state' = [state EXCEPT !.sigma = v]
    /\ UNCHANGED <<current_function_evals, time_created, parameters,
                   best_function_value_history, median_function_value_history,
                   max_history_size, first_median_value, best_median_value,
                   individuals>>
    /\ Stale

\* *state.mut_generation() = g
mut_generation(g) ==
    /\ Writable("generation")
    /\ g # FixtureState.generation
    /\ state' = [state EXCEPT !.generation = g]
    /\ UNCHANGED <<current_function_evals, time_created, parameters,
                   best_function_value_history, median_function_value_history,
                   max_history_size, first_median_value, best_median_value,
                   individuals>>
    /\ Stale

\* *state.mut_mean() = m
mut_mean(m) ==
    /\ Writable("mean")
    /\ m # FixtureState.mean
    /\ state' = [state EXCEPT !.mean = m]
    /\ UNCHANGED <<current_function_evals, time_created, parameters,
                   best_function_value_history, median_function_value_history,
                   max_history_size, first_median_value, best_median_value,
                   individuals>>
    /\ Stale

\* The covariance path of the state.
mut_path_c(p) ==
    /\ Writable("path_c")
    /\ p # FixtureState.path_c
    /\ state' = [state EXCEPT !.path_c = p]
    /\ UNCHANGED <<current_function_evals, time_created, parameters,
                   best_function_value_history, median_function_value_history,
                   max_history_size, first_median_value, best_median_value,
                   individuals>>
    /\ Stale

\* state.mut_cov().set_cov(cov, true): the decomposition is refreshed with it.
set_cov(cov) ==
    /\ Writable("cov")
    /\ cov # FixtureState.cov
    /\ state' = [state EXCEPT !.cov = cov,
                              !.cov_eigenvectors = Eigen(cov).eigenvectors,
                              !.cov_sqrt_eigenvalues = Eigen(cov).sqrt_eigenvalues]
    /\ UNCHANGED <<current_function_evals, time_created, parameters,
                   best_function_value_history, median_function_value_history,
                   max_history_size, first_median_value, best_median_value,
                   individuals>>
    /\ Stale

\* The field current_function_evals of the TerminationCheck literal.
SetCurrentFunctionEvals(n) ==
    /\ Writable("current_function_evals")
    /\ n # 0
    /\ current_function_evals' = n
    /\ UNCHANGED <<time_created, parameters, state,
                   best_function_value_history, median_function_value_history,
                   max_history_size, first_median_value, best_median_value,
                   individuals>>
    /\ Stale

\* The field best_function_value_history.
SetBestHistory(h) ==
    /\ Writable("best_function_value_history")
    /\ h # <<>>
    /\ best_function_value_history' = h
    /\ UNCHANGED <<current_function_evals, time_created, parameters, state,
                   median_function_value_history, max_history_size,
                   first_median_value, best_median_value, individuals>>
    /\ Stale

\* The field median_function_value_history.
SetMedianHistory(h) ==
    /\ Writable("median_function_value_history")
    /\ h # <<>>
    /\ median_function_value_history' = h
    /\ UNCHANGED <<current_function_evals, time_created, parameters, state,
                   best_function_value_history, max_history_size,
                   first_median_value, best_median_value, individuals>>
    /\ Stale

\* The field max_history_size.
SetMaxHistorySize(n) ==
    /\ Writable("max_history_size")
    /\ n # MAX_HISTORY_LENGTH
    /\ max_history_size' = n
    /\ UNCHANGED <<current_function_evals, time_created, parameters, state,
                   best_function_value_history, median_function_value_history,
                   first_median_value, best_median_value, individuals>>
    /\ Stale

\* The field first_median_value.
SetFirstMedianValue(m) ==
    /\ Writable("first_median_value")
    /\ m # Some(0)
    /\ first_median_value' = m
    /\ UNCHANGED <<current_function_evals, time_created, parameters, state,
                   best_function_value_history, median_function_value_history,
                   max_history_size, best_median_value, individuals>>
    /\ Stale

\* The field best_median_value.
SetBestMedianValue(m) ==
    /\ Writable("best_median_value")
    /\ m # Some(0)
    /\ best_median_value' = m
    /\ UNCHANGED <<current_function_evals, time_created, parameters, state,
                   best_function_value_history, median_function_value_history,
                   max_history_size, first_median_value, individuals>>
    /\ Stale

\* The field individuals.
SetIndividuals(g) ==
    /\ Writable("individuals")
    /\ g # get_dummy_generation(10)
    /\ individuals' = g
    /\ UNCHANGED <<current_function_evals, time_created, parameters, state,
                   best_function_value_history, median_function_value_history,
                   max_history_size, first_median_value, best_median_value>>
    /\ Stale

\* Time passes between the construction of the check and a call.
Tick ==
    /\ now < MaxNow
    /\ now # time_created \/ Changes < MaxChanges
    /\ now' = now + 1
    /\ fresh' = FALSE
    /\ UNCHANGED <<optionVars, runVars, checkInputs, result, same_inputs>>

\* A call that drains the window from the history instead of reading it.
CallDraining ==
    /\ result' = check_termination_criteria
    /\ best_function_value_history' =
           Skip(best_function_value_history,
                IF Len(best_function_value_history) >= past_generations_a
                THEN past_generations_a ELSE 0)
    /\ same_inputs' = TRUE
    /\ fresh' = TRUE
    /\ UNCHANGED <<optionVars, runVars, current_function_evals, time_created, parameters,
                   state, median_function_value_history, max_history_size,
                   first_median_value, best_median_value, individuals, now>>

\* A call of check_termination_criteria: it takes the fields by value and
\* by shared reference and returns a new Vec.
Call ==
    /\ result' = check_termination_criteria
    /\ same_inputs' = TRUE
    /\ fresh' = TRUE
    /\ UNCHANGED <<optionVars, runVars, checkInputs, now>>

\* No generation was run.
NoRun ==
    /\ pc = "idle"
    /\ evaluated = <<>>
    /\ cache = "Clean"
    /\ observed = None
    /\ reasons = <<>>
    /\ checks = 0
    /\ stop_requested = FALSE

Init ==
    /\ options = New(DIM)
    /\ touched = {}
    /\ build_result = "NotBuilt"
    /\ cmaes_state = None
    /\ current_function_evals = 0
    /\ time_created = 0
    /\ parameters = FixtureParameters
    /\ state = FixtureState
    /\ best_function_value_history = <<>>
    /\ median_function_value_history = <<>>
    /\ max_history_size = MAX_HISTORY_LENGTH
    /\ first_median_value = Some(0)
    /\ best_median_value = Some(0)
    /\ individuals = get_dummy_generation(10)
    /\ now = 0
    /\ result = <<>>
    /\ same_inputs = FALSE
    /\ fresh = FALSE
    /\ NoRun

Next ==
    \/ CanWrite /\ \E f \in DOMAIN ParameterValues :
                     \E v \in ParameterValues[f] : SetParameter(f, v)
    \/ CanWrite /\ \E v \in Sigmas : mut_sigma(v)
    \/ CanWrite /\ \E g \in 1..3 : mut_generation(g)
    \/ CanWrite /\ \E m \in Means : mut_mean(m)
    \/ CanWrite /\ \E p \in Paths : mut_path_c(p)
    \/ CanWrite /\ \E d \in CovDiagonals : set_cov(Diagonal(d))
    \/ CanWrite /\ \E n \in 1..3 : SetCurrentFunctionEvals(n)
    \/ CanWrite /\ \E h \in BestHistories : SetBestHistory(h)
    \/ CanWrite /\ \E h \in MedianHistories : SetMedianHistory(h)
    \/ CanWrite /\ \E n \in {FixtureWindow, FixtureWindow \div 2} :
                     SetMaxHistorySize(n)
    \/ CanWrite /\ \E m \in MedianValues : SetFirstMedianValue(m)
    \/ CanWrite /\ \E m \in MedianValues : SetBestMedianValue(m)
    \/ CanWrite /\ \E g \in Generations : SetIndividuals(g)
    \/ Tick
    \/ Call

Spec == Init /\ [][Next]_vars

\* The options a caller assembles before build.
InitBuild ==
    /\ \E d \in 0..MaxDimensions : options = New(d)
    /\ touched = {}
    /\ build_result = "NotBuilt"
    /\ cmaes_state = None
    /\ current_function_evals = 0
    /\ time_created = 0
    /\ parameters = FixtureParameters
    /\ state = FixtureState
    /\ best_function_value_history = <<>>
    /\ median_function_value_history = <<>>
    /\ max_history_size = MAX_HISTORY_LENGTH
    /\ first_median_value = Some(0)
    /\ best_median_value = Some(0)
    /\ individuals = get_dummy_generation(10)
    /\ now = 0
    /\ result = <<>>
    /\ same_inputs = FALSE
    /\ fresh = FALSE
    /\ NoRun

NextBuild ==
    \/ \E n \in 0..MaxDimensions : initial_mean([i \in 1..n |-> 1])
    \/ \E x \in {-One, 0, 1, Half, One} : initial_step_size(x)
    \/ \E n \in 3..6 : population_size(n)
    \/ \E x \in {-One, 0, 1, Half, One, One + 1, 2 * One} : cm(x)
    \/ build

SpecBuild == InitBuild /\ [][NextBuild]_vars

----------------------------------------------------------------------------
(* The generation driver, sampling and the covariance's cache               *)
(* (spec 2, 3, 4.2, 4.3, 5, 6, 7; TerminationReason's documentation)        *)

\* Generations a run is followed for.
MaxRunGenerations == 3

\* An infinite objective value, as a number above every finite one here.
Infinity == 125 * One

\* An f64 the objective returned: its class ("finite", "infinite", "nan")
\* and its value as a number.
ObjectiveValue(class, value) == [class |-> class, value |-> value]

\* Every value that is not finite taken for invalid.
is_non_finite(v) == v.class # "finite"

\* The invalid values of TerminationReason::InvalidFunctionValue: NAN, -NAN.
is_invalid(v) == v.class = "nan"

\* What the objective returns for the lambda candidates of a generation.
ObjectiveResults ==
    LET all(v) == [i \in 1..parameters.lambda |-> ObjectiveValue("finite", v)]
    IN  {all(10), all(1),
         [all(10) EXCEPT ![1] = ObjectiveValue("infinite", Infinity)],
         [all(10) EXCEPT ![parameters.lambda] = ObjectiveValue("nan", 0)]}

\* The covariances an update writes.
UpdatedCovariances == {Identity, Diagonal(<<4, 1>>), Diagonal(<<9, 1>>)}

\* An access that reads the cache as it is.
ReadAsIs(s, c) == s

\* The State after an access that needs the decomposition, the cache being
\* c: recomputed from the covariance when Dirty.
Recomputed(s, c) ==
    IF c = "Dirty"
    THEN [s EXCEPT !.cov_eigenvectors = Eigen(s.cov).eigenvectors,
                   !.cov_sqrt_eigenvalues = Eigen(s.cov).sqrt_eigenvalues]
    ELSE s

\* What an access reads, with the covariance it is read for.
Observation(s, c) ==
    Some([cov |-> s.cov,
          eigenvectors |-> Recomputed(s, c).cov_eigenvectors,
          sqrt_eigenvalues |-> Recomputed(s, c).cov_sqrt_eigenvalues,
          recomputed |-> c = "Dirty"])

\* A history with a value appended at its front, bounded by max_history_size.
PushFront(history, value) == Take(<<value>> \o history, max_history_size)

\* The median of the individuals' values.
MedianValue == Unwrap(Median2(individuals)) \div 2

\* Sampling (spec 4.2): lambda candidates are drawn from the decomposition
\* and evaluated once each; an invalid value ends the generation with
\* InvalidFunctionValue.
Sample(raw) ==
    /\ pc = "idle"
    /\ ~stop_requested
    /\ current_function_evals < MaxRunGenerations * parameters.lambda
    /\ state' = Recomputed(state, cache)
    /\ cache' = "Clean"
    /\ observed' = Observation(state, cache)
    /\ evaluated' = raw
    /\ current_function_evals' = current_function_evals + parameters.lambda
    /\ IF \E i \in DOMAIN raw : is_invalid(raw[i])
       THEN /\ reasons' = <<"InvalidFunctionValue">>
            /\ pc' = "idle"
            /\ individuals' = individuals
       ELSE /\ reasons' = <<>>
            /\ pc' = "sampled"
            /\ individuals' = [i \in DOMAIN raw |-> raw[i].value]
    /\ UNCHANGED <<optionVars, callVars, time_created, parameters,
                   best_function_value_history, median_function_value_history,
                   max_history_size, first_median_value, best_median_value,
                   checks, stop_requested>>

\* The update of the State (spec 4.3): it reads the decomposition, writes
\* the covariance, marks the cache dirty and increments the generation.
Update(cov) ==
    /\ pc = "sampled"
    /\ observed' = Observation(state, cache)
    /\ state' = [Recomputed(state, cache) EXCEPT !.cov = cov,
                                                 !.generation = @ + 1]
    /\ cache' = "Dirty"
    /\ pc' = "updated"
    /\ UNCHANGED <<optionVars, callVars, current_function_evals, time_created,
                   parameters, best_function_value_history,
                   median_function_value_history, max_history_size,
                   first_median_value, best_median_value, individuals,
                   evaluated, reasons, checks, stop_requested>>

\* The update signals PosDefCov and commits nothing.
UpdateFails ==
    /\ pc = "sampled"
    /\ reasons' = <<"PosDefCov">>
    /\ pc' = "idle"
    /\ UNCHANGED <<optionVars, callVars, checkInputs, evaluated, cache,
                   observed, checks, stop_requested>>

\* A check made as soon as the candidates are sampled.
CheckWhenSampled == pc \in {"sampled", "updated"}

\* The check is due: the generation's update is complete.
CheckDue == pc = "updated"

\* The end of a generation: the histories take the generation's best and
\* median value and the termination check is made on the refreshed State.
CheckTermination ==
    /\ CheckDue
    /\ state' = Recomputed(state, cache)
    /\ cache' = "Clean"
    /\ observed' = Observation(state, cache)
    /\ best_function_value_history' =
           PushFront(best_function_value_history, Min(Range(individuals)))
    /\ median_function_value_history' =
           PushFront(median_function_value_history, MedianValue)
    /\ first_median_value' =
           IF IsSome(first_median_value) THEN first_median_value
           ELSE Some(MedianValue)
    /\ best_median_value' =
           IF IsSome(best_median_value) /\ Unwrap(best_median_value) <= MedianValue
           THEN best_median_value ELSE Some(MedianValue)
    /\ UNCHANGED <<current_function_evals, time_created, parameters,
                   max_history_size, individuals, now>>
    /\ result' = check_termination_criteria'
    /\ reasons' = result'
    /\ checks' = checks + 1
    /\ pc' = "idle"
    /\ UNCHANGED <<optionVars, same_inputs, fresh, evaluated, stop_requested>>

\* The caller asks the run to stop.
RequestStop ==
    /\ pc # "stopped"
    /\ ~stop_requested
    /\ stop_requested' = TRUE
    /\ UNCHANGED <<optionVars, callVars, checkInputs, pc, evaluated, cache,
                   observed, reasons, checks>>

\* The caller pulls no further generation.
Halt ==
    /\ pc = "idle"
    /\ stop_requested \/ reasons # <<>>
    /\ pc' = "stopped"
    /\ UNCHANGED <<optionVars, callVars, checkInputs, evaluated, cache,
                   observed, reasons, checks, stop_requested>>

\* Time passes during the run.
Elapse ==
    /\ pc # "stopped"
    /\ now < MaxNow
    /\ now' = now + 1
    /\ UNCHANGED <<optionVars, checkInputs, runVars, result, same_inputs, fresh>>

\* The start of a run: the State as constructed, empty histories, no
\* median yet, and the limits the caller configured.
InitRun ==
    /\ options = New(DIM)
    /\ touched = {}
    /\ build_result = "NotBuilt"
    /\ cmaes_state = None
    /\ current_function_evals = 0
    /\ time_created = 0
    /\ \E evals \in {None, Some(2 * 6), Some(2 * 6 + 3)},
          generations \in {None, Some(2)}, time \in {None, Some(1)} :
           parameters = get_parameters(None, evals, generations, time, None)
    /\ state = get_state(None)
    /\ best_function_value_history = <<>>
    /\ median_function_value_history = <<>>
    /\ max_history_size = MAX_HISTORY_LENGTH
    /\ first_median_value = None
    /\ best_median_value = None
    /\ individuals = <<>>
    /\ now = 0
    /\ result = <<>>
    /\ same_inputs = FALSE
    /\ fresh = FALSE
    /\ NoRun

NextRun ==
    \/ \E raw \in ObjectiveResults : Sample(raw)
    \/ \E cov \in UpdatedCovariances : Update(cov)
    \/ UpdateFails
    \/ CheckTermination
    \/ RequestStop
    \/ Halt
    \/ Elapse

SpecRun == InitRun /\ [][NextRun]_vars

----------------------------------------------------------------------------
(* The claims *)

InResult(reason) == reason \in Range(result)

\* The fields other than those of `fields` hold the fixture's values and the
\* clock reads the time of construction.
OnlyChanged(fields) == ChangedFields \subseteq fields /\ now = time_created

\* C1: build returns Ok exactly for valid options (those of
\* CMAESOptions::new(n), n >= 1, among them) and otherwise the Err whose
\* sub-reason names a violated condition (dimensions = 0, population_size
\* < 4, initial_step_size <= 0, mean length # dimensions, cm outside (0, 1]);
\* a State exists after build iff it returned Ok.
C1_BuildValidates ==
    ~NotBuilt =>
        /\ build_result = "Ok" <=>
              /\ options.dimensions >= 1
              /\ Len(options.initial_mean) = options.dimensions
              /\ options.population_size >= 4
              /\ options.initial_step_size > 0
              /\ options.cm > 0 /\ options.cm <= One
        /\ build_result = "Dimensions" => options.dimensions = 0
        /\ build_result = "PopulationSize" => options.population_size < 4
        /\ build_result = "InitialStepSize" => options.initial_step_size <= 0
        /\ build_result = "MeanDimensionMismatch" =>
              Len(options.initial_mean) # options.dimensions
        /\ build_result = "Cm" => (options.cm <= 0 \/ options.cm > One)
        /\ build_result \in {"Ok", "Dimensions", "PopulationSize",
                             "InitialStepSize", "MeanDimensionMismatch", "Cm"}
        /\ IsSome(cmaes_state) <=> build_result = "Ok"
        /\ (touched = {} /\ options.dimensions >= 1) => build_result = "Ok"

\* An initial step size of -1.0 alone: build failed with InitialStepSize and
\* no State exists.
C1_Witness ==
    /\ build_result = "InitialStepSize"
    /\ options.initial_step_size = -One
    /\ touched = {"initial_step_size"}
    /\ options.dimensions = MaxDimensions
    /\ cmaes_state = None

\* The criterion of each reason the check evaluates.
Met(reason) ==
    CASE reason = "MaxFunctionEvals" -> MaxFunctionEvalsMet
      [] reason = "MaxGenerations" -> MaxGenerationsMet
      [] reason = "MaxTime" -> MaxTimeMet
      [] reason = "FunTarget" -> FunTargetMet
      [] reason = "TolFun" -> TolFunMet
      [] reason = "TolFunRel" -> TolFunRelMet
      [] reason = "TolFunHist" -> TolFunHistMet
      [] reason = "TolX" -> TolXMet
      [] reason = "TolConditionCov" -> TolConditionCovMet
      [] reason = "NoEffectAxis" -> NoEffectAxisMet
      [] reason = "NoEffectCoord" -> NoEffectCoordMet
      [] reason = "Stagnation" -> StagnationMet
      [] reason = "TolXUp" -> TolXUpMet
      [] OTHER -> FALSE

\* C2: the result of a call holds a reason iff that reason's own criterion
\* is met, whatever the other criteria do, and holds it once.
C2_ExactlyTheSatisfied ==
    fresh =>
        /\ \A reason \in TerminationReason : InResult(reason) <=> Met(reason)
        /\ Range(result) \subseteq TerminationReason
        /\ Len(result) = Cardinality(Range(result))

\* A call returned three reasons or more.
C2_Witness == fresh /\ Cardinality(Range(result)) >= 3

\* The result without MaxTime.
WithoutMaxTime(r) == SelectSeq(r, LAMBDA x : x # "MaxTime")

\* C3 as claimed: a call on the fields of an earlier call returns what the
\* earlier call returned, and no call changes a field.
C3_Original ==
    [][fresh' => /\ checkInputs' = checkInputs
                 /\ same_inputs => result' = result]_vars

\* C3 as amended: a call on the fields of an earlier call returns what the
\* earlier call returned but for MaxTime, which depends on the clock at the
\* call and which a later call can gain and not lose; with the clock
\* unmoved the results are identical; no call changes a field.
C3_PureUpToClock ==
    [][fresh' => /\ checkInputs' = checkInputs
                 /\ same_inputs =>
                       /\ WithoutMaxTime(result') = WithoutMaxTime(result)
                       /\ InResult("MaxTime") => "MaxTime" \in Range(result')
                       /\ now' = now /\ fresh => result' = result]_vars

\* A call returned without MaxTime, the fields are as they were, and by now
\* the time limit is reached: the next call differs.
C3_Witness ==
    /\ same_inputs /\ ~fresh
    /\ ~InResult("MaxTime")
    /\ IsSome(parameters.max_time) /\ now - time_created >= Unwrap(parameters.max_time)

\* C4: each Max* reason is returned iff its limit is configured and the
\* measured quantity has reached it (>=).
C4_MaxLimits ==
    fresh =>
        /\ InResult("MaxFunctionEvals") <=>
              \E limit \in Range(parameters.max_function_evals) :
                  current_function_evals >= limit
        /\ InResult("MaxGenerations") <=>
              \E limit \in Range(parameters.max_generations) :
                  state.generation >= limit
        /\ InResult("MaxTime") <=>
              \E limit \in Range(parameters.max_time) :
                  now - time_created >= limit

\* An evaluation count equal to the limit is reported.
C4_Witness ==
    /\ fresh
    /\ parameters.max_function_evals = Some(current_function_evals)
    /\ result = <<"MaxFunctionEvals">>

\* C5: FunTarget is returned iff an individual's value is <= fun_target; on
\* the fixture with every individual at or below the target the result is
\* exactly FunTarget.
C5_FunTarget ==
    fresh =>
        /\ InResult("FunTarget") <=>
              \E i \in DOMAIN individuals : ~(individuals[i] > parameters.fun_target)
        /\ (/\ OnlyChanged({"individuals"})
            /\ \A i \in DOMAIN individuals : individuals[i] <= parameters.fun_target)
              => result = <<"FunTarget">>

\* Every individual below the target (the constant objective): FunTarget
\* alone.
C5_Witness ==
    /\ fresh
    /\ \A i \in DOMAIN individuals : individuals[i] < parameters.fun_target
    /\ result = <<"FunTarget">>

\* W = 10 + ceil(30 N / lambda): 10 plus the least k with k * lambda >= 30 N.
Window ==
    10 + Min({k \in 0..(30 * parameters.dim) :
                 k * parameters.lambda >= 30 * parameters.dim})

WindowExists == Len(best_function_value_history) >= Window

\* The W most recent best values.
WindowValues == {best_function_value_history[i] : i \in 1..Window}

\* max - min of the values is below t: no two of them differ by t or more.
RangeBelow(values, t) == \A a \in values, b \in values : a - b < t

Distance(a, b) == IF a >= b THEN a - b ELSE b - a

\* C6: TolFun is returned iff the best-value history holds W entries or more
\* and the range of its W most recent values and the range of the current
\* generation's values are both below tol_fun; with fewer than W entries
\* none of TolFun, TolFunRel, TolFunHist is returned.
C6_TolFun ==
    fresh =>
        /\ InResult("TolFun") <=>
              /\ WindowExists
              /\ RangeBelow(WindowValues, parameters.tol_fun)
              /\ RangeBelow(Range(individuals), parameters.tol_fun)
        /\ ~WindowExists =>
              ~InResult("TolFun") /\ ~InResult("TolFunRel") /\ ~InResult("TolFunHist")

\* TolFun on a history of exactly W entries whose values differ.
C6_Witness ==
    /\ fresh
    /\ InResult("TolFun")
    /\ Len(best_function_value_history) = Window
    /\ Cardinality(WindowValues) > 1

C8_Original ==
    fresh =>
        /\ InResult("TolFunHist") <=>
              WindowExists /\ RangeBelow(WindowValues, parameters.tol_fun_hist)
        /\ (parameters.tol_fun_hist = 0 /\ WindowExists) =>
              (InResult("TolFunHist") <=> Cardinality(WindowValues) = 1)

\* C8 as amended: TolFunHist is returned iff the window exists and its range
\* is strictly below tol_fun_hist, whatever the current values; with
\* tol_fun_hist = 0.0 it is never returned, be the range positive (a window
\* of equal values but one, within tol_fun, gives exactly TolFun) or 0.
C8_TolFunHist ==
    fresh =>
        /\ InResult("TolFunHist") <=>
              WindowExists /\ RangeBelow(WindowValues, parameters.tol_fun_hist)
        /\ parameters.tol_fun_hist = 0 => ~InResult("TolFunHist")
        /\ (/\ OnlyChanged({"tol_fun_hist", "best_function_value_history"})
            /\ parameters.tol_fun_hist = 0
            /\ WindowExists
            /\ Cardinality(WindowValues) > 1
            /\ RangeBelow(WindowValues, parameters.tol_fun))
              => result = <<"TolFun">>

\* tol_fun_hist = 0.0 and a window of equal values: no TolFunHist.
C8_Witness ==
    /\ fresh
    /\ parameters.tol_fun_hist = 0
    /\ WindowExists
    /\ Cardinality(WindowValues) = 1
    /\ ~InResult("TolFunHist")

\* C9 as claimed: TolX is returned iff every coordinate's standard deviation
\* sigma * sqrt(C[i,i]) and every |sigma * path_c[i]| is below tol_x.
C9_TolXOnStandardDeviation ==
    fresh =>
        (InResult("TolX") <=>
            /\ \A i \in Dims : state.sigma * Sqrt(state.cov[i, i]) < parameters.tol_x
            /\ \A i \in Dims : Abs(state.sigma * state.path_c[i]) < parameters.tol_x)

\* C10: TolXUp is returned iff sigma times the largest sqrt-eigenvalue,
\* divided by initial_sigma, exceeds tol_x_up; sigma = tol_x_up with the
\* default initial sigma 0.5 gives exactly TolXUp, and such a sigma or a
\* larger one gives nothing when initial_sigma is as large in proportion.
C10_TolXUp ==
    fresh =>
        /\ InResult("TolXUp") <=>
              \E i \in Dims :
                  state.sigma * state.cov_sqrt_eigenvalues[i, i]
                      > parameters.tol_x_up * parameters.initial_sigma
        /\ (/\ OnlyChanged({"sigma"})
            /\ state.sigma = parameters.tol_x_up * One)
              => result = <<"TolXUp">>
        /\ (/\ OnlyChanged({"sigma", "initial_sigma"})
            /\ state.sigma >= parameters.tol_x_up * One
            /\ state.sigma <= parameters.tol_x_up * parameters.initial_sigma)
              => result = <<>>

\* sigma = tol_x_up, initial sigma 0.5: TolXUp alone.
C10_Witness ==
    /\ fresh
    /\ state.sigma = parameters.tol_x_up * One
    /\ parameters.initial_sigma = Half
    /\ result = <<"TolXUp">>

\* g mod N as an axis of 1..N: the axis i with g = q * N + (i - 1).
AxisOf(g) == CHOOSE i \in Dims : \E q \in 0..g : g = q * DIM + (i - 1)

\* Adding 0.1 * sigma * sqrt-eigenvalue[i] * eigenvector[i] to the mean
\* leaves every coordinate of the mean equal.
AxisHasNoEffect(i) ==
    \A j \in Dims :
        AddLeavesEqual(state.mean[j],
                       state.sigma * state.cov_sqrt_eigenvalues[i, i]
                           * state.cov_eigenvectors[j, i])

\* C11: at generation counter g NoEffectAxis is returned iff the principal
\* axis g mod N, and no other, has no effect on the mean; each axis is the
\* one tested at exactly one of any N consecutive counters g, .., g + N - 1,
\* so an axis without effect is reported at one of them.
C11_NoEffectAxis ==
    fresh =>
        /\ InResult("NoEffectAxis") <=> AxisHasNoEffect(AxisOf(state.generation))
        /\ \A i \in Dims :
               Cardinality({k \in 0..(DIM - 1) : AxisOf(state.generation + k) = i}) = 1

\* NoEffectAxis at an odd counter, for the second axis, the first axis
\* having an effect.
C11_Witness ==
    /\ fresh
    /\ InResult("NoEffectAxis")
    /\ state.generation % DIM = 1
    /\ AxisHasNoEffect(2)
    /\ ~AxisHasNoEffect(1)

\* C12: NoEffectCoord is returned iff some coordinate i of the mean is left
\* equal by adding 0.2 * sigma * C[i,i], every coordinate being tested at
\* every check whatever the generation counter.
C12_NoEffectCoord ==
    fresh =>
        (InResult("NoEffectCoord") <=>
            \E i \in Dims :
                AddLeavesEqual(state.mean[i], 2 * state.sigma * state.cov[i, i]))

\* NoEffectCoord for a coordinate other than the one the counter selects.
C12_Witness ==
    /\ fresh
    /\ InResult("NoEffectCoord")
    /\ ~InResult("NoEffectAxis")
    /\ ~AddLeavesEqual(state.mean[AxisOf(state.generation)],
                       2 * state.sigma
                           * state.cov[AxisOf(state.generation), AxisOf(state.generation)])

\* Both histories hold max_history_size entries or more.
HistoriesFull ==
    /\ Len(best_function_value_history) >= max_history_size
    /\ Len(median_function_value_history) >= max_history_size

\* 30% of the window, in whole entries.
SliceLength == Max({k \in 0..max_history_size : 10 * k <= 3 * max_history_size})

\* The newest and the oldest SliceLength entries of a history's window (the
\* newest entry of a history is its first).
NewestSlice(h) == [i \in 1..SliceLength |-> h[i]]

OldestSlice(h) == [i \in 1..SliceLength |-> h[max_history_size - SliceLength + i]]

\* The newest slice's median is strictly lower than the oldest slice's.
Improved(h) == MedianLess(Median2(NewestSlice(h)), Median2(OldestSlice(h)))

\* C13: Stagnation is not returned while a history holds fewer than
\* max_history_size entries; once both hold as many it is returned iff in
\* neither history the median of the newest 30% of the window is strictly
\* lower than the median of the oldest 30%.
C13_Stagnation ==
    fresh =>
        /\ ~HistoriesFull => ~InResult("Stagnation")
        /\ HistoriesFull =>
              (InResult("Stagnation") <=>
                  /\ ~Improved(best_function_value_history)
                  /\ ~Improved(median_function_value_history))

\* Stagnation on best values that change without a lower median and median
\* values that became worse.
C13_Witness ==
    /\ fresh
    /\ InResult("Stagnation")
    /\ Cardinality(Range(best_function_value_history)) > 1
    /\ MedianLess(Median2(OldestSlice(median_function_value_history)),
                  Median2(NewestSlice(median_function_value_history)))

\* C14: TolConditionCov is returned iff the squared quotient of the largest
\* by the smallest sqrt-eigenvalue is not a normal number (the smallest is
\* 0: the quotient is infinite or NaN) or is strictly greater than
\* tol_condition_cov.
C14_TolConditionCov ==
    fresh =>
        (InResult("TolConditionCov") <=>
            \/ \E i \in Dims : state.cov_sqrt_eigenvalues[i, i] = 0
            \/ \E i \in Dims, j \in Dims :
                   state.cov_sqrt_eigenvalues[i, i] * state.cov_sqrt_eigenvalues[i, i]
                       > parameters.tol_condition_cov
                             * state.cov_sqrt_eigenvalues[j, j]
                             * state.cov_sqrt_eigenvalues[j, j])

\* TolConditionCov alone, for positive sqrt-eigenvalues.
C14_Witness ==
    /\ fresh
    /\ result = <<"TolConditionCov">>
    /\ \A i \in Dims : state.cov_sqrt_eigenvalues[i, i] > 0

\* C15: the state as constructed (mean at the origin, identity covariance,
\* sigma the initial sigma, zero paths, generation 0), empty histories, no
\* limit configured, the default tolerances and every individual above the
\* target: the check returns no reason.
C15_FreshStateMeetsNone ==
    (/\ fresh
     /\ OnlyChanged({"individuals"})
     /\ \A i \in DOMAIN individuals : individuals[i] > parameters.fun_target)
        => result = <<>>

\* The check of the untouched fixture returned no reason.
C15_Witness ==
    /\ fresh
    /\ ChangedFields = {}
    /\ now = time_created
    /\ state = get_state(None)
    /\ parameters.max_function_evals = None
    /\ parameters.max_generations = None
    /\ parameters.max_time = None
    /\ result = <<>>

\* C20: with tol_fun <= tol_fun_hist a result that holds TolFun holds
\* TolFunHist too; TolFun without TolFunHist needs tol_fun_hist < tol_fun.
C20_TolFunImpliesTolFunHist ==
    (fresh /\ InResult("TolFun")) =>
        /\ parameters.tol_fun <= parameters.tol_fun_hist => InResult("TolFunHist")
        /\ ~InResult("TolFunHist") => parameters.tol_fun_hist < parameters.tol_fun

\* TolFun and TolFunHist together under ordered thresholds, on a window
\* whose values differ and a history longer than the window.
C20_Witness ==
    /\ fresh
    /\ parameters.tol_fun <= parameters.tol_fun_hist
    /\ InResult("TolFun")
    /\ InResult("TolFunHist")
    /\ Len(best_function_value_history) >= Window
    /\ Cardinality(WindowValues) > 1

\* The values of the latest candidates as numbers.
SampledValues == [i \in DOMAIN evaluated |-> evaluated[i].value]

\* The latest generation ended at once with InvalidFunctionValue alone and
\* its candidates did not become the individuals.
EndedAsInvalid ==
    /\ reasons = <<"InvalidFunctionValue">>
    /\ pc \in {"idle", "stopped"}
    /\ individuals # SampledValues

DecompositionOf(cov, eigenvectors, sqrt_eigenvalues) ==
    /\ eigenvectors = Eigen(cov).eigenvectors
    /\ sqrt_eigenvalues = Eigen(cov).sqrt_eigenvalues

C19_MaxLimitsLatch ==
    [][/\ state'.generation >= state.generation
       /\ current_function_evals' # current_function_evals =>
             /\ current_function_evals' = current_function_evals + parameters.lambda
             /\ pc = "idle"
       /\ checks' # checks =>
             /\ "MaxFunctionEvals" \in Range(result') <=>
                   \E limit \in Range(parameters.max_function_evals) :
                       current_function_evals' >= limit
             /\ InResult("MaxGenerations") => "MaxGenerations" \in Range(result')
             /\ InResult("MaxFunctionEvals") => "MaxFunctionEvals" \in Range(result')]_vars

\* Both limits reported again by the check of a generation after the one
\* that reached them.
C19_Witness ==
    /\ checks >= 3
    /\ InResult("MaxGenerations")
    /\ InResult("MaxFunctionEvals")
    /\ state.generation > Unwrap(parameters.max_generations)
    /\ current_function_evals
           >= Unwrap(parameters.max_function_evals) + parameters.lambda

====
